---- MODULE Spec2Model ----
(***************************************************************************)
(* Orion chat agent.                                                       *)
(*                                                                         *)
(* Agent side (orion_service.py, orion.py): OrionService.connect and       *)
(* OrionService.chat run as asyncio coroutines; an action below is one     *)
(* run of a coroutine from one suspension point (an await that really      *)
(* yields) to the next.  llm.invoke is a plain blocking call, so it never  *)
(* yields.  The language model is a function of its prompt and the calls   *)
(* of one behaviour send the same query, so the text of the first reply    *)
(* and of the follow-up is chosen once; whether a generation call or a     *)
(* tool invocation raises is chosen at each call.                          *)
(*                                                                         *)
(* Tool side (mcp_server.py): OpenAPIToolExtractor.extract_tools and       *)
(* execute_tool, in the second half of the module.                         *)
(***************************************************************************)
EXTENDS Integers, Sequences, FiniteSets, TLC

\* Number of concurrent calls (each one call of connect or of chat).
NumCalls == 2

Calls == 1..NumCalls

VARIABLES
    script,       \* OrionService.server_script
    connected,    \* OrionService.connected
    lock,         \* OrionService.lock (asyncio.Lock): locked, waiters, woken futures
    session,      \* Orion.session is set
    llm,          \* Orion.llm is set
    opened,       \* stdio transports entered on Orion.exit_stack
    established,  \* completed runs of Orion.connect_to_server
    firstReply,   \* what generate() answers to the first prompt of a turn
    followReply,  \* what generate() answers to the follow-up prompt
    call,         \* per call: pc, op, out (what it returned or raised), ev (what its turn did)
    base_url,     \* OpenAPIToolExtractor.base_url (<<>> for None or '')
    doc,          \* the OpenAPI document at spec_path
    tools,        \* OpenAPIToolExtractor.tools, the registry
    toolList,     \* what extract_tools returned
    invoked,      \* the tool_name and arguments of the running execute_tool
    xpc,          \* the extractor: "new", "ready", "http_wait", "returned"
    request,      \* the HTTP request of the running execute_tool
    outcome       \* how the last execute_tool ended

agentVars == <<script, connected, lock, session, llm, opened, established,
               firstReply, followReply, call>>

toolVars == <<base_url, doc, tools, toolList, invoked, xpc, request, outcome>>

-----------------------------------------------------------------------------
(* Reply text.  A reply is a sequence of tokens; braces occur only as the  *)
(* tokens LB and RB, so str.find('{') / str.rfind('}') and the slice      *)
(* between them fall on token boundaries.                                  *)

LB == [t |-> "punct", v |-> "{"]
RB == [t |-> "punct", v |-> "}"]
COLON == [t |-> "punct", v |-> ":"]
COMMA == [t |-> "punct", v |-> ","]
NULL == [t |-> "lit", v |-> "null"]
S(s) == [t |-> "str", v |-> s]      \* a JSON string literal
N(n) == [t |-> "num", v |-> n]      \* a JSON number literal
W(w) == [t |-> "word", v |-> w]     \* prose without braces

\* JSON values as json.loads builds them.
JNull == [k |-> "null", s |-> "", m |-> <<>>]
JStr(s) == [k |-> "str", s |-> s, m |-> <<>>]
JNum(n) == [k |-> "num", s |-> n, m |-> <<>>]
JObj(m) == [k |-> "obj", s |-> "", m |-> m]

\* str.find('{'): index of the first LB, 0 for Python's -1.
FindOpen(r) ==
    IF \E i \in 1..Len(r) : r[i] = LB
    THEN CHOOSE i \in 1..Len(r) : r[i] = LB /\ \A j \in 1..(i - 1) : r[j] # LB
    ELSE 0

\* str.find('}') in place of str.rfind('}').
RFindCloseFirst(r) ==
    IF \E i \in 1..Len(r) : r[i] = RB
    THEN CHOOSE i \in 1..Len(r) : r[i] = RB /\ \A j \in 1..(i - 1) : r[j] # RB
    ELSE 0

\* str.rfind('}'): index of the last RB, 0 for Python's -1.
RFindClose(r) ==
    IF \E i \in 1..Len(r) : r[i] = RB
    THEN CHOOSE i \in 1..Len(r) : r[i] = RB /\ \A j \in (i + 1)..Len(r) : r[j] # RB
    ELSE 0

ParseFail == [ok |-> FALSE, val |-> JNull, next |-> 0]

RECURSIVE ParseValue(_, _)
RECURSIVE ParseMembers(_, _, _)

\* json.loads' scanner: one value starting at token i.
ParseValue(toks, i) ==
    IF i > Len(toks) THEN ParseFail
    ELSE LET tok == toks[i] IN
         CASE tok.t = "str" -> [ok |-> TRUE, val |-> JStr(tok.v), next |-> i + 1]
           [] tok.t = "num" -> [ok |-> TRUE, val |-> JNum(tok.v), next |-> i + 1]
           [] tok.t = "lit" -> [ok |-> TRUE, val |-> JNull, next |-> i + 1]
           [] tok = LB ->
                IF i + 1 <= Len(toks) /\ toks[i + 1] = RB
                THEN [ok |-> TRUE, val |-> JObj(<<>>), next |-> i + 2]
                ELSE ParseMembers(toks, i + 1, <<>>)
           [] OTHER -> ParseFail

\* The members of an object after its '{': "key" : value (, "key" : value)* }
ParseMembers(toks, i, acc) ==
    IF i + 1 > Len(toks) \/ toks[i].t # "str" \/ toks[i + 1] # COLON THEN ParseFail
    ELSE LET r == ParseValue(toks, i + 2) IN
         IF ~r.ok \/ r.next > Len(toks) THEN ParseFail
         ELSE LET acc2 == Append(acc, [key |-> toks[i].v, val |-> r.val]) IN
              CASE toks[r.next] = COMMA -> ParseMembers(toks, r.next + 1, acc2)
                [] toks[r.next] = RB ->
                     [ok |-> TRUE, val |-> JObj(acc2), next |-> r.next + 1]
                [] OTHER -> ParseFail

\* json.loads(json_str): the whole text must be one value; JSONDecodeError otherwise.
JsonLoads(toks) ==
    LET r == ParseValue(toks, 1) IN
    IF r.ok /\ r.next = Len(toks) + 1
    THEN [ok |-> TRUE, val |-> r.val]
    ELSE [ok |-> FALSE, val |-> JNull]

\* key in dict
HasKey(obj, key) == \E i \in 1..Len(obj.m) : obj.m[i].key = key

\* dict.get(key, default); a repeated key keeps its last value.
Get(obj, key, default) ==
    IF HasKey(obj, key)
    THEN LET i == CHOOSE i \in 1..Len(obj.m) :
                      /\ obj.m[i].key = key
                      /\ \A j \in (i + 1)..Len(obj.m) : obj.m[j].key # key
         IN obj.m[i].val
    ELSE default

\* Python truthiness of a parsed value.
Truthy(v) ==
    CASE v.k = "null" -> FALSE
      [] v.k = "str" -> v.s # ""
      [] v.k = "num" -> v.s # "0"
      [] v.k = "obj" -> v.m # <<>>

\* response[start:end + 1]
BraceSlice(r) == SubSeq(r, FindOpen(r), RFindClose(r))

\* _extract_tool_call returning the parsed object itself.
ExtractToolCallNoKeyCheck(r) ==
    IF FindOpen(r) # 0 /\ RFindClose(r) # 0 /\ JsonLoads(BraceSlice(r)).ok
    THEN JsonLoads(BraceSlice(r)).val
    ELSE JNull

\* Orion._extract_tool_call: the tool_call member, or None (JNull).
ExtractToolCall(r) ==
    IF FindOpen(r) # 0 /\ RFindClose(r) # 0
    THEN LET parsed == JsonLoads(BraceSlice(r)) IN
         IF parsed.ok /\ parsed.val.k = "obj" /\ HasKey(parsed.val, "tool_call")
         THEN Get(parsed.val, "tool_call", JNull)
         ELSE JNull
    ELSE JNull

-----------------------------------------------------------------------------
(* The replies the language model may give.                                *)

Directive ==
    <<LB, S("tool_call"), COLON, LB, S("name"), COLON, S("get_weather"), COMMA,
      S("arguments"), COLON, LB, S("city"), COLON, S("Paris"), RB, RB, RB>>

Prose == <<W("The answer is 5")>>
Trail == <<W("Let me check that.")>>

Replies ==
    { <<>>,
      Prose,
      Directive,
      Directive \o Trail,
      Prose \o Directive \o Trail,
      Directive \o Trail \o <<RB>>,
      <<LB>> \o Prose \o Directive,
      Directive \o Trail \o Directive,
      <<LB, S("tool_call"), COLON, LB, S("name"), COLON, S("get_weather"), RB, RB>>,
      <<LB, S("tool_call"), COLON, LB, S("arguments"), COLON, LB, RB, RB, RB>>,
      <<LB, S("tool_call"), COLON, LB, RB, RB>>,
      <<LB, S("tool_call"), COLON, NULL, RB>>,
      <<LB, S("tool_call"), COLON, S("get_weather"), RB>>,
      <<LB, S("tool_call"), COLON, N("1"), RB>>,
      <<LB, S("tool_call"), COLON, NULL, COMMA,
        S("tool_call"), COLON, LB, S("name"), COLON, S("get_weather"), RB, RB>>,
      <<LB, S("city"), COLON, S("Paris"), RB>>,
      <<LB, RB>>,
      <<LB, S("tool_call"), LB, S("name"), COLON, S("get_weather"), RB, RB>>,
      Prose \o <<LB>>,
      Prose \o <<RB>>,
      <<RB>> \o Prose \o <<LB>> }

\* Follow-up answers: plain text, or text that itself holds a directive.
FollowUps == { Prose, Directive \o Trail }

\* orion.py:260 and orion.py:213
Apology == <<W("Sorry, something went wrong.")>>
NoLLM == <<W("LLM not initialized. Connect to server first.")>>

\* backend.py:24 passes "mcp_server.py"; any other script is a constructor argument.
Scripts == { <<"mcp_server", ".py">>, <<"server", ".js">> }

\* server_script_path.endswith('.py')
EndsWithPy(path) == path[Len(path)] = ".py"

-----------------------------------------------------------------------------
(* asyncio.Lock                                                            *)

LockFreeAlways(l) == TRUE

\* Lock.acquire's fast path: not locked and no waiter queued.
LockFree(l) == ~l.locked /\ l.waiters = <<>>

Without(seq, t) == SelectSeq(seq, LAMBDA x : x # t)

\* Lock.acquire returning to caller t (fast path, or a woken waiter resuming).
Acquire(l, t) ==
    [locked |-> TRUE, waiters |-> Without(l.waiters, t), woken |-> l.woken \ {t}]

\* Lock.acquire suspending caller t on a new future.
Enqueue(l, t) == [l EXCEPT !.waiters = Append(l.waiters, t)]

\* Lock.release: unlock and wake the first waiter.
Release(l) ==
    [l EXCEPT !.locked = FALSE,
              !.woken = IF l.waiters # <<>> THEN l.woken \cup {Head(l.waiters)}
                        ELSE l.woken]

-----------------------------------------------------------------------------
(* Calls                                                                   *)

NoOut == [kind |-> "none", text |-> <<>>]
Ret(text) == [kind |-> "return", text |-> text]
Raised == [kind |-> "raise", text |-> <<>>]

\* What a turn did, in order: generation calls and tool invocations, each with
\* how it ended ("ok", "raise", or "pending" while awaited).
GenEv(st) == [e |-> "gen", st |-> st, name |-> JNull, arguments |-> JNull]
ToolEv(inv, st) == [e |-> "tool", st |-> st, name |-> inv.name, arguments |-> inv.arguments]

IdleCall == [pc |-> "idle", op |-> "none", out |-> NoOut, ev |-> <<>>]

\* OrionService.__init__ and Orion.__init__, for a script and a model.
AgentInit(scripts, firsts, follows) ==
    /\ script \in scripts
    /\ connected = FALSE
    /\ lock = [locked |-> FALSE, waiters |-> <<>>, woken |-> {}]
    /\ session = FALSE
    /\ llm = FALSE
    /\ opened = 0
    /\ established = 0
    /\ firstReply \in firsts
    /\ followReply \in follows
    /\ call = [t \in Calls |-> IdleCall]

NoRequest == [sent |-> FALSE, method |-> "", url |-> <<>>, params |-> <<>>,
              headers |-> <<>>, json |-> <<>>]
NoOutcome == [kind |-> "none", success |-> FALSE, error |-> "", status |-> "none",
              data |-> "none"]
NoCall == [name |-> "", args |-> <<>>]
NoDoc == [hasServers |-> FALSE, servers |-> <<>>, paths |-> <<>>]

\* OpenAPIToolExtractor.__init__ with override b, the file at spec_path holding d.
ToolInit(bases, docs) ==
    /\ base_url \in bases
    /\ doc \in docs
    /\ tools = <<>>
    /\ toolList = <<>>
    /\ invoked = NoCall
    /\ xpc = "new"
    /\ request = NoRequest
    /\ outcome = NoOutcome

Init ==
    /\ AgentInit(Scripts, Replies, FollowUps)
    /\ ToolInit({<<>>}, {NoDoc})

\* Call t ends with outcome o; l is the lock as the call leaves it.
Finish(t, op, l, o, ev) ==
    /\ call' = [call EXCEPT ![t] = [pc |-> "done", op |-> op, out |-> o, ev |-> ev]]
    /\ lock' = l

\* Call t suspends at an await.
Suspend(t, op, l, p, ev) ==
    /\ call' = [call EXCEPT ![t] = [pc |-> p, op |-> op, out |-> NoOut, ev |-> ev]]
    /\ lock' = l

\* orion.py:235-236  tool_call.get('name'), tool_call.get('arguments', {})
Invocation(tc) ==
    [name |-> Get(tc, "name", JNull), arguments |-> Get(tc, "arguments", JObj(<<>>))]

\* Orion.process_query up to its first await (call_tool) or its return; chat holds
\* lock l and releases it when process_query returns.
ProcessQuery(t, l) ==
    IF ~llm
    THEN Finish(t, "chat", Release(l), Ret(NoLLM), <<>>)
    ELSE \/ \* llm.invoke raises
            Finish(t, "chat", Release(l), Ret(Apology), <<GenEv("raise")>>)
         \/ LET tc == ExtractToolCall(firstReply) IN
            IF Truthy(tc)
            THEN IF tc.k = "obj" /\ session
                 THEN Suspend(t, "chat", l, "tool_wait",
                              <<GenEv("ok"), ToolEv(Invocation(tc), "pending")>>)
                 ELSE \* tool_call.get raises AttributeError, or call_tool RuntimeError
                      Finish(t, "chat", Release(l), Ret(Apology), <<GenEv("ok")>>)
            ELSE Finish(t, "chat", Release(l), Ret(firstReply), <<GenEv("ok")>>)

\* Orion.connect_to_server up to its first await: the .py check.
ConnectToServerBegin(t, op, l) ==
    IF EndsWithPy(script)
    THEN Suspend(t, op, l, "cts_stdio", <<>>)
    ELSE Finish(t, op, IF op = "chat" THEN Release(l) ELSE l, Raised, <<>>)

\* OrionService.connect called on its own (backend.startup_event).
CallConnect(t) ==
    /\ call[t].pc = "idle"
    /\ IF connected
       THEN Finish(t, "connect", lock, Ret(<<>>), <<>>)
       ELSE ConnectToServerBegin(t, "connect", lock)
    /\ UNCHANGED toolVars
    /\ UNCHANGED <<script, connected, session, llm, opened, established,
                   firstReply, followReply>>

\* The body of chat's `async with self.lock`, lock l held.
ChatBody(t, l) ==
    IF ~connected THEN ConnectToServerBegin(t, "chat", l) ELSE ProcessQuery(t, l)

\* OrionService.chat is called: take the lock, or wait for it.
CallChat(t) ==
    /\ call[t].pc = "idle"
    /\ IF LockFree(lock)
       THEN ChatBody(t, Acquire(lock, t))
       ELSE Suspend(t, "chat", Enqueue(lock, t), "lock_wait", <<>>)
    /\ UNCHANGED toolVars
    /\ UNCHANGED <<script, connected, session, llm, opened, established,
                   firstReply, followReply>>

\* A woken waiter resumes inside Lock.acquire.
ChatResume(t) ==
    /\ call[t].pc = "lock_wait"
    /\ t \in lock.woken
    /\ ChatBody(t, Acquire(lock, t))
    /\ UNCHANGED toolVars
    /\ UNCHANGED <<script, connected, session, llm, opened, established,
                   firstReply, followReply>>

\* chat leaving on connect's exception with the lock still held.
ConnectRaisesKeepsLock(t) ==
    /\ call[t].pc \in {"cts_stdio", "cts_session", "cts_init"}
    /\ Finish(t, call[t].op, lock, Raised, <<>>)
    /\ UNCHANGED toolVars
    /\ UNCHANGED <<script, connected, session, llm, opened, established,
                   firstReply, followReply>>

\* An await inside connect_to_server raises: the exception leaves connect, and
\* leaves chat through `async with`, which releases the lock.
ConnectRaises(t) ==
    /\ call[t].pc \in {"cts_stdio", "cts_session", "cts_init"}
    /\ Finish(t, call[t].op, IF call[t].op = "chat" THEN Release(lock) ELSE lock,
              Raised, <<>>)
    /\ UNCHANGED toolVars
    /\ UNCHANGED <<script, connected, session, llm, opened, established,
                   firstReply, followReply>>

\* orion.py:85  stdio_client entered.
StdioOpened(t) ==
    /\ call[t].pc = "cts_stdio"
    /\ opened' = opened + 1
    /\ Suspend(t, call[t].op, lock, "cts_session", <<>>)
    /\ UNCHANGED toolVars
    /\ UNCHANGED <<script, connected, session, llm, established, firstReply, followReply>>

\* orion.py:87  ClientSession entered, self.session set.
SessionEntered(t) ==
    /\ call[t].pc = "cts_session"
    /\ session' = TRUE
    /\ Suspend(t, call[t].op, lock, "cts_init", <<>>)
    /\ UNCHANGED toolVars
    /\ UNCHANGED <<script, connected, llm, opened, established, firstReply, followReply>>

\* orion.py:90-99  initialize() returned; the LLM is built; list_tools starts.
Initialized(t) ==
    /\ call[t].pc = "cts_init"
    /\ llm' = TRUE
    /\ Suspend(t, call[t].op, lock, "cts_list", <<>>)
    /\ UNCHANGED toolVars
    /\ UNCHANGED <<script, connected, session, opened, established, firstReply, followReply>>

\* list_tools returned (it absorbs its own errors); connect sets connected, and
\* chat goes on to process_query.
ToolsListed(t) ==
    /\ call[t].pc = "cts_list"
    /\ established' = established + 1
    /\ connected' = TRUE
    /\ IF call[t].op = "chat"
       THEN ProcessQuery(t, lock)
       ELSE Finish(t, "connect", lock, Ret(<<>>), <<>>)
    /\ UNCHANGED toolVars
    /\ UNCHANGED <<script, session, llm, opened, firstReply, followReply>>

\* The events of call t with its pending tool invocation ended as st, then the
\* follow-up generation ended as g.
AfterTool(t, st, g) ==
    <<call[t].ev[1], [call[t].ev[2] EXCEPT !.st = st], GenEv(g)>>

ToolReturnedNoCatch(t) ==
    /\ call[t].pc = "tool_wait"
    /\ \E st \in {"ok", "raise"} :
          \/ Finish(t, "chat", Release(lock), Ret(followReply), AfterTool(t, st, "ok"))
          \/ Finish(t, "chat", Release(lock), Raised, AfterTool(t, st, "raise"))
    /\ UNCHANGED toolVars
    /\ UNCHANGED <<script, connected, session, llm, opened, established,
                   firstReply, followReply>>

\* Orion.call_tool returned: the tool's text, or the error text it makes of an
\* exception of session.call_tool (st = "raise").  The follow-up generation runs
\* and process_query returns its text, or the apology when the generation raises.
ToolReturned(t) ==
    /\ call[t].pc = "tool_wait"
    /\ \E st \in {"ok", "raise"} :
          \/ Finish(t, "chat", Release(lock), Ret(followReply), AfterTool(t, st, "ok"))
          \/ Finish(t, "chat", Release(lock), Ret(Apology), AfterTool(t, st, "raise"))
    /\ UNCHANGED toolVars
    /\ UNCHANGED <<script, connected, session, llm, opened, established,
                   firstReply, followReply>>

Next ==
    \E t \in Calls :
        \/ CallConnect(t)
        \/ CallChat(t)
        \/ ChatResume(t)
        \/ ConnectRaises(t)
        \/ StdioOpened(t)
        \/ SessionEntered(t)
        \/ Initialized(t)
        \/ ToolsListed(t)
        \/ ToolReturned(t)

vars == <<agentVars, toolVars>>

Spec == Init /\ [][Next]_vars

\* The event loop runs a waiter that Lock.release has woken, and an awaited tool
\* call comes back; nothing makes the awaits of connect_to_server come back.
Fairness == \A t \in Calls : WF_vars(ChatResume(t)) /\ WF_vars(ToolReturned(t))

\* For the turns that matter to the lock: a direct answer, a tool call, and a
\* tool_call that is no object (the turn fails with the apology).
FairReplies ==
    { Prose,
      Directive \o Trail,
      <<LB, S("tool_call"), COLON, S("get_weather"), RB>> }

InitFair ==
    /\ AgentInit(Scripts, FairReplies, {Prose})
    /\ ToolInit({<<>>}, {NoDoc})

SpecFair == InitFair /\ [][Next]_vars /\ Fairness

-----------------------------------------------------------------------------
(* Properties of the agent side                                            *)

GensOf(c) == Len(SelectSeq(c.ev, LAMBDA x : x.e = "gen"))
ToolsOf(c) == Len(SelectSeq(c.ev, LAMBDA x : x.e = "tool"))

\* A turn is in flight: its first generation was issued and it has not returned.
InTurn(c) == c.pc = "tool_wait"

\* The turn of call c got its first reply from the model.
TurnReplied(c) == c.ev # <<>> /\ c.ev[1].st = "ok"

\* The text of r from its first '{' to its last '}', stated on r itself.
HasSpan(r) == (\E i \in 1..Len(r) : r[i] = LB) /\ (\E j \in 1..Len(r) : r[j] = RB)
SpanOf(r) ==
    LET i == CHOOSE i \in 1..Len(r) : r[i] = LB /\ \A k \in 1..Len(r) : r[k] = LB => i <= k
        j == CHOOSE j \in 1..Len(r) : r[j] = RB /\ \A k \in 1..Len(r) : r[k] = RB => k <= j
    IN SubSeq(r, i, j)

\* toks is a tool-call directive: a JSON object whose tool_call member is a
\* non-empty object.
IsDirective(toks) ==
    LET p == JsonLoads(toks) IN
    /\ p.ok
    /\ p.val.k = "obj"
    /\ HasKey(p.val, "tool_call")
    /\ Get(p.val, "tool_call", JNull).k = "obj"
    /\ Get(p.val, "tool_call", JNull).m # <<>>

\* r holds a directive somewhere.
ContainsDirective(r) ==
    \E i, j \in 1..Len(r) : i <= j /\ IsDirective(SubSeq(r, i, j))

\* The turn of c made exactly one invocation, of the tool and arguments that
\* directive d names, then exactly one follow-up generation, whose text (when the
\* generation returns) is what the turn returned.
OneCallOneFollowUp(c, d) ==
    LET tc == Get(JsonLoads(d).val, "tool_call", JNull) IN
    /\ Len(c.ev) = 3
    /\ c.ev[1].e = "gen" /\ c.ev[2].e = "tool" /\ c.ev[3].e = "gen"
    /\ c.ev[2].name = Get(tc, "name", JNull)
    /\ c.ev[2].arguments = Get(tc, "arguments", JObj(<<>>))
    /\ c.ev[3].st = "ok" => c.out = Ret(followReply)

\* C1: a call issues a generation call only while no other call's turn is in
\* flight, before and after the step: turns on one service never overlap.
C1_TurnsSerialized ==
    [][\A t \in Calls :
          GensOf(call'[t]) > GensOf(call[t])
          => \A u \in Calls \ {t} : ~InTurn(call[u]) /\ ~InTurn(call'[u])]_vars

\* One call waits for the lock while another call's turn awaits its tool.
C1_Witness ==
    \E t, u \in Calls : t # u /\ InTurn(call[t]) /\ call[u].pc = "lock_wait"

\* C2: connect_to_server completes at most once over the life of the service.
C2_EstablishedOnce == established <= 1

\* C3 as stated: every turn makes at most one tool invocation, and whenever the
\* first reply holds a tool_call directive the turn makes exactly one invocation
\* and one follow-up generation.
C3_AsStated ==
    \A t \in Calls :
        /\ ToolsOf(call[t]) <= 1
        /\ (call[t].pc = "done" /\ TurnReplied(call[t]) /\ ContainsDirective(firstReply))
           => \E i, j \in 1..Len(firstReply) :
                 /\ i <= j
                 /\ IsDirective(SubSeq(firstReply, i, j))
                 /\ OneCallOneFollowUp(call[t], SubSeq(firstReply, i, j))

\* C3: every turn makes at most one tool invocation; when the text from the
\* first '{' to the last '}' of the first reply is a tool_call directive, the turn
\* makes exactly one invocation of the named tool with the given arguments and
\* then exactly one follow-up generation, and returns that generation's text
\* unscanned. The reply of section 8 invokes get_weather with {city: Paris}.
C3_OneToolCallPerTurn ==
    \A t \in Calls :
        /\ ToolsOf(call[t]) <= 1
        /\ (call[t].pc = "done" /\ TurnReplied(call[t]) /\ HasSpan(firstReply)
              /\ IsDirective(SpanOf(firstReply)))
           => OneCallOneFollowUp(call[t], SpanOf(firstReply))
        /\ (call[t].pc = "done" /\ TurnReplied(call[t]) /\ firstReply = Directive \o Trail)
           => /\ call[t].ev[2].name = JStr("get_weather")
              /\ call[t].ev[2].arguments = JObj(<<[key |-> "city", val |-> JStr("Paris")]>>)

\* A directive with trailing prose was answered by a follow-up that itself holds
\* a directive, and that follow-up was returned as it is.
C3_Witness ==
    \E t \in Calls :
        /\ call[t].pc = "done"
        /\ firstReply = Directive \o Trail
        /\ followReply = Directive \o Trail
        /\ Len(call[t].ev) = 3
        /\ call[t].out = Ret(followReply)

\* The first reply is no tool call: it has no '{', or no '}', or the text between
\* the first '{' and the last '}' is not JSON, or is an object without tool_call.
NotAToolCall(r) ==
    \/ ~HasSpan(r)
    \/ ~JsonLoads(SpanOf(r)).ok
    \/ (JsonLoads(SpanOf(r)).val.k = "obj" /\ ~HasKey(JsonLoads(SpanOf(r)).val, "tool_call"))

SomeRaised(c) == \E i \in 1..Len(c.ev) : c.ev[i].st = "raise"
GenRaised(c) == \E i \in 1..Len(c.ev) : c.ev[i].e = "gen" /\ c.ev[i].st = "raise"
ToolRaised(c) == \E i \in 1..Len(c.ev) : c.ev[i].e = "tool" /\ c.ev[i].st = "raise"

ConnectedMeansEstablished == connected => (session /\ llm /\ established >= 1)

\* process_query ran for call c: it made a generation call, or found no LLM.
RanProcessQuery(c) == c.ev # <<>> \/ c.out = Ret(NoLLM)

\* No call ran process_query on an Orion that is not connected.
NoQueryUnconnected ==
    \A t \in Calls :
        RanProcessQuery(call[t]) => (connected /\ session /\ llm /\ call[t].out # Ret(NoLLM))

\* The connect attempt of call t raises in this step.
ConnectAttemptRaises(t) == call[t].out # Raised /\ call'[t].out = Raised

\* C12: connected implies that connect_to_server completed (session set, LLM
\* initialised); no call runs process_query on an unconnected Orion; and a
\* connect attempt that raises leaves connected = false, the call (connect, or
\* chat around it) ending with the exception and without process_query.
C12_ConnectedOnlyAfterConnect ==
    /\ [](ConnectedMeansEstablished /\ NoQueryUnconnected)
    /\ [][\A t \in Calls :
             ConnectAttemptRaises(t)
             => /\ ~connected'
                /\ call'[t].pc = "done"
                /\ ~RanProcessQuery(call'[t])]_vars

\* Call t is inside chat's `async with self.lock` block.
InsideChat(t) ==
    /\ call[t].op = "chat"
    /\ call[t].pc \in {"cts_stdio", "cts_session", "cts_init", "cts_list", "tool_wait"}

\* Call t is inside connect_to_server.
InConnect(t) == call[t].pc \in {"cts_stdio", "cts_session", "cts_init", "cts_list"}

\* The lock is held exactly while some call is inside chat's block: every way
\* out of chat has released it.
LockReleasedOnExit == lock.locked <=> \E t \in Calls : InsideChat(t)

\* Every chat caller waiting on the lock eventually has it and ends its turn.
WaitersComplete == \A t \in Calls : (call[t].pc = "lock_wait") ~> (call[t].pc = "done")

-----------------------------------------------------------------------------
(* Tool side: OpenAPIToolExtractor (mcp_server.py).                        *)
(*                                                                         *)
(* Text that the code searches or rewrites (paths, URLs, operation ids) is *)
(* a sequence of pieces: "/", "{", "}" and "-" are pieces of their own,    *)
(* and every other piece is a run of characters holding none of the four.  *)
(* A dict is a sequence of entries with distinct keys, in insertion order. *)

\* Largest number of (path, key) entries in a document.
MaxOps == 2

Range(seq) == {seq[i] : i \in 1..Len(seq)}

RECURSIVE Concat(_)
\* ''.join(pieces)
Concat(pieces) == IF pieces = <<>> THEN "" ELSE Head(pieces) \o Concat(Tail(pieces))

\* seq starts with pat at index i.
MatchAt(seq, pat, i) ==
    /\ i + Len(pat) - 1 <= Len(seq)
    /\ \A k \in 1..Len(pat) : seq[i + k - 1] = pat[k]

\* pat in seq
Contains(seq, pat) == \E i \in 1..Len(seq) : MatchAt(seq, pat, i)

RECURSIVE ReplaceAll(_, _, _)
\* str.replace(pat, rep): every occurrence, left to right.
ReplaceAll(seq, pat, rep) ==
    IF seq = <<>> THEN <<>>
    ELSE IF MatchAt(seq, pat, 1)
         THEN rep \o ReplaceAll(SubSeq(seq, Len(pat) + 1, Len(seq)), pat, rep)
         ELSE <<Head(seq)>> \o ReplaceAll(Tail(seq), pat, rep)

RECURSIVE RStripSlash(_)
\* str.rstrip('/')
RStripSlash(seq) ==
    IF seq # <<>> /\ seq[Len(seq)] = "/" THEN RStripSlash(SubSeq(seq, 1, Len(seq) - 1))
    ELSE seq

\* str.upper() on the keys a path item holds.
Upper(key) ==
    CASE key = "get" -> "GET"
      [] key = "POST" -> "POST"
      [] key = "Put" -> "PUT"
      [] key = "patch" -> "PATCH"
      [] key = "Delete" -> "DELETE"
      [] key = "head" -> "HEAD"
      [] key = "options" -> "OPTIONS"
      [] key = "parameters" -> "PARAMETERS"
      [] key = "x-ext" -> "X-EXT"

\* str.lower() on a piece.
Lower(piece) ==
    CASE piece = "POST" -> "post"
      [] piece = "Put" -> "put"
      [] piece = "Delete" -> "delete"
      [] piece = "Get" -> "get"
      [] piece = "User" -> "user"
      [] OTHER -> piece

\* dict[key] = value
Put(d, key, value) ==
    IF \E i \in 1..Len(d) : d[i].name = key
    THEN [i \in 1..Len(d) |-> IF d[i].name = key THEN [name |-> key, value |-> value]
                              ELSE d[i]]
    ELSE Append(d, [name |-> key, value |-> value])

\* key in dict
In(key, d) == \E i \in 1..Len(d) : d[i].name = key

\* dict[key]
At(d, key) == d[CHOOSE i \in 1..Len(d) : d[i].name = key].value

RECURSIVE AddKeys(_, _)
\* properties.update(...) / properties[name] = ..., keeping the keys only.
AddKeys(keys, new) ==
    IF new = <<>> THEN keys
    ELSE AddKeys(IF Head(new) \in Range(keys) THEN keys ELSE Append(keys, Head(new)),
                 Tail(new))

\* mcp_server.py:67
DefaultBase == <<"http:", "/", "/", "localhost:8000">>

\* _get_base_url asking the document before the override.
GetBaseUrlServersFirst ==
    IF doc.hasServers /\ doc.servers # <<>> THEN doc.servers[1]
    ELSE IF base_url # <<>> THEN base_url
         ELSE DefaultBase

\* OpenAPIToolExtractor._get_base_url.  `if self.base_url` is a truth test, so
\* None and the empty string are one case, <<>>.
GetBaseUrl ==
    IF base_url # <<>> THEN base_url
    ELSE IF doc.hasServers /\ doc.servers # <<>> THEN doc.servers[1]
         ELSE DefaultBase

Names(params) == [i \in 1..Len(params) |-> params[i].name]

RequiredNames(params) ==
    Names(SelectSeq(params, LAMBDA q : q.required))

ExtractParametersNoFallback(op) ==
    LET properties1 == AddKeys(<<>>, Names(op.params))
        required1 == RequiredNames(op.params)
        fromBody == op.hasBody /\ op.body.hasJson /\ op.body.hasProps
    IN [properties |-> IF fromBody THEN AddKeys(properties1, op.body.props) ELSE properties1,
        required |-> IF fromBody /\ op.body.hasReq THEN required1 \o op.body.req
                     ELSE required1]

\* OpenAPIToolExtractor._extract_parameters: the input schema's property names
\* (in dict order) and its required list.
ExtractParameters(op) ==
    LET properties1 == AddKeys(<<>>, Names(op.params))
        required1 == RequiredNames(op.params)
        fromBody == op.hasBody /\ op.body.hasJson /\ op.body.hasProps
        properties == IF fromBody THEN AddKeys(properties1, op.body.props) ELSE properties1
        required2 == IF fromBody /\ op.body.hasReq THEN required1 \o op.body.req
                     ELSE required1
    IN [properties |-> properties,
        required |-> IF op.hasBody /\ op.body.required /\ required2 = <<>>
                     THEN properties ELSE required2]

EligibleMethodsAndHead == {"GET", "POST", "PUT", "PATCH", "DELETE", "HEAD"}

\* mcp_server.py:137
EligibleMethods == {"GET", "POST", "PUT", "PATCH", "DELETE"}

\* path.replace('/', '_').replace('{', '').replace('}', '')
PathForName(path) ==
    ReplaceAll(ReplaceAll(ReplaceAll(path, <<"/">>, <<"_">>), <<"{">>, <<>>), <<"}">>, <<>>)

\* mcp_server.py:141-142  the tool's name.
ToolName(e) ==
    LET raw == IF e.op.hasId THEN e.op.operationId
               ELSE <<e.key, "_">> \o PathForName(e.path)
        under == ReplaceAll(raw, <<"-">>, <<"_">>)
    IN Concat([i \in 1..Len(under) |-> Lower(under[i])])

RECURSIVE ExtractFrom(_, _, _)
\* The loop of extract_tools over the entries of paths, from registry reg and
\* tool list lst.
ExtractFrom(entries, reg, lst) ==
    IF entries = <<>> THEN [tools |-> reg, list |-> lst]
    ELSE LET e == Head(entries) IN
         IF Upper(e.key) \notin EligibleMethods
         THEN ExtractFrom(Tail(entries), reg, lst)
         ELSE LET schema == ExtractParameters(e.op)
                  info == [path |-> e.path, method |-> Upper(e.key), operation |-> e.op,
                           input_schema |-> schema]
              IN ExtractFrom(Tail(entries),
                             (ToolName(e) :> info) @@ reg,
                             Append(lst, [name |-> ToolName(e), inputSchema |-> schema]))

\* OpenAPIToolExtractor.extract_tools (load_spec included): fills the registry.
ExtractTools ==
    /\ xpc = "new"
    /\ LET r == ExtractFrom(doc.paths, tools, <<>>) IN
       /\ tools' = r.tools
       /\ toolList' = r.list
    /\ xpc' = "ready"
    /\ UNCHANGED <<base_url, doc, invoked, request, outcome>>
    /\ UNCHANGED agentVars

\* str(value)
PyStr(v) ==
    CASE v.ty = "int" -> ToString(v.n)
      [] v.ty = "bool" -> IF v.n = 1 THEN "True" ELSE "False"
      [] v.ty = "str" -> v.s

RECURSIVE SubstitutePath(_, _)
\* mcp_server.py:190-192  each argument whose {name} is in the URL is substituted.
SubstitutePath(url, args) ==
    IF args = <<>> THEN url
    ELSE LET a == Head(args)
             ph == <<"{", a.name, "}">>
         IN SubstitutePath(IF Contains(url, ph) THEN ReplaceAll(url, ph, <<PyStr(a.value)>>)
                           ELSE url,
                           Tail(args))

\* param.get('in', 'query')
InOf(q) == IF q.in = "" THEN "query" ELSE q.in

RECURSIVE PlaceParams(_, _, _, _)
\* mcp_server.py:195-203  the query string and the headers.
PlaceParams(params, args, query, headers) ==
    IF params = <<>> THEN [query |-> query, headers |-> headers]
    ELSE LET q == Head(params) IN
         IF ~In(q.name, args) THEN PlaceParams(Tail(params), args, query, headers)
         ELSE CASE InOf(q) = "query" ->
                     PlaceParams(Tail(params), args, Put(query, q.name, At(args, q.name)), headers)
                [] InOf(q) = "header" ->
                     PlaceParams(Tail(params), args, query,
                                 Put(headers, q.name, [ty |-> "str", n |-> 0,
                                                       s |-> PyStr(At(args, q.name))]))
                [] OTHER -> PlaceParams(Tail(params), args, query, headers)

\* mcp_server.py:206-210  the JSON body: the arguments no declared parameter
\* names, when the operation has a requestBody; <<>> stands for None.
JsonBody(op, args) ==
    IF op.hasBody
    THEN SelectSeq(args, LAMBDA a : a.name \notin Range(Names(op.params)))
    ELSE <<>>

BearerToken == [ty |-> "str", n |-> 0, s |-> "Bearer token"]

\* The request execute_tool builds for a registered tool.
BuildRequest(info, args) ==
    LET placed == PlaceParams(info.operation.params, args, <<>>,
                              <<[name |-> "Authorization", value |-> BearerToken]>>)
    IN [sent |-> TRUE,
        method |-> info.method,
        url |-> SubstitutePath(RStripSlash(GetBaseUrl) \o info.path, args),
        params |-> placed.query,
        headers |-> placed.headers,
        json |-> JsonBody(info.operation, args)]

\* OpenAPIToolExtractor.execute_tool up to its await of client.request: an
\* unknown name raises ValueError before any request is built.
ExecuteTool(name, args) ==
    /\ xpc = "ready"
    /\ invoked' = [name |-> name, args |-> args]
    /\ IF name \notin DOMAIN tools
       THEN /\ request' = NoRequest
            /\ outcome' = [kind |-> "raise", success |-> FALSE,
                           error |-> "Unknown tool: " \o name, status |-> "none",
                           data |-> "none"]
            /\ xpc' = "returned"
       ELSE /\ request' = BuildRequest(tools[name], args)
            /\ outcome' = NoOutcome
            /\ xpc' = "http_wait"
    /\ UNCHANGED <<base_url, doc, tools, toolList>>
    /\ UNCHANGED agentVars

\* How client.request and raise_for_status may end.
Responses == {"2xx_json", "2xx_text", "non2xx", "transport", "other"}

\* mcp_server.py:222-248  the result execute_tool makes of the response.
ResultOf(resp) ==
    CASE resp = "2xx_json" ->
            [kind |-> "return", success |-> TRUE, error |-> "", status |-> "code",
             data |-> "json"]
      [] resp = "2xx_text" ->
            [kind |-> "return", success |-> TRUE, error |-> "", status |-> "code",
             data |-> "text"]
      [] resp = "non2xx" ->    \* raise_for_status: httpx.HTTPStatusError
            [kind |-> "return", success |-> FALSE, error |-> "status", status |-> "code",
             data |-> "none"]
      [] resp = "transport" -> \* httpx.RequestError
            [kind |-> "return", success |-> FALSE, error |-> "transport", status |-> "None",
             data |-> "none"]
      [] resp = "other" ->     \* any other Exception
            [kind |-> "return", success |-> FALSE, error |-> "other", status |-> "none",
             data |-> "none"]

\* The awaited request ends and execute_tool returns.
HttpResponds(resp) ==
    /\ xpc = "http_wait"
    /\ outcome' = ResultOf(resp)
    /\ xpc' = "returned"
    /\ UNCHANGED <<base_url, doc, tools, toolList, invoked, request>>
    /\ UNCHANGED agentVars

\* The caller has the result (mcp_server.py:297-298); execute_tool keeps nothing
\* of the call.
CallerReturns ==
    /\ xpc = "returned"
    /\ invoked' = NoCall
    /\ request' = NoRequest
    /\ outcome' = NoOutcome
    /\ xpc' = "ready"
    /\ UNCHANGED <<base_url, doc, tools, toolList>>
    /\ UNCHANGED agentVars

-----------------------------------------------------------------------------
(* Documents and arguments                                                 *)

Param(n, in, req) == [name |-> n, in |-> in, required |-> req]
NoBody == [required |-> FALSE, hasJson |-> FALSE, hasProps |-> FALSE, props |-> <<>>,
           hasReq |-> FALSE, req |-> <<>>]
Body(req, props) == [required |-> req, hasJson |-> TRUE, hasProps |-> TRUE, props |-> props,
                     hasReq |-> FALSE, req |-> <<>>]
Op(id, params, hasBody, body) ==
    [hasId |-> id # <<>>, operationId |-> id, params |-> params, hasBody |-> hasBody,
     body |-> body]
Entry(path, key, op) == [path |-> path, key |-> key, op |-> op]

UsersId == <<"/", "users", "/", "{", "id", "}">>
Items == <<"/", "items">>

GetUser ==
    Op(<<"Get", "-", "User">>,
       <<Param("id", "path", TRUE), Param("verbose", "query", FALSE)>>, FALSE, NoBody)
PutUser == Op(<<>>, <<Param("verbose", "query", FALSE)>>, TRUE, Body(FALSE, <<"name">>))
PostItem == Op(<<>>, <<>>, TRUE, Body(TRUE, <<"a", "b">>))
PatchItem ==
    Op(<<>>, <<Param("q", "query", TRUE), Param("h", "header", FALSE)>>, TRUE,
       Body(TRUE, <<"a", "b">>))
DeleteItem ==
    Op(<<"Get", "-", "User">>, <<Param("c", "cookie", FALSE)>>, TRUE,
       [Body(TRUE, <<"a">>) EXCEPT !.hasReq = TRUE, !.req = <<"a", "zz">>])
ListItems == Op(<<>>, <<Param("verbose", "", FALSE)>>, FALSE, NoBody)
UploadItem ==
    Op(<<>>, <<Param("p", "query", FALSE)>>, TRUE, [NoBody EXCEPT !.required = TRUE])
DeleteUser ==
    Op(<<>>, <<>>, TRUE,
       [NoBody EXCEPT !.required = TRUE, !.hasJson = TRUE, !.hasReq = TRUE, !.req = <<"x">>])

Entries ==
    { Entry(UsersId, "get", GetUser),
      Entry(UsersId, "Put", PutUser),
      Entry(Items, "POST", PostItem),
      Entry(Items, "patch", PatchItem),
      Entry(Items, "Delete", DeleteItem),
      Entry(Items, "get", ListItems),
      Entry(Items, "Put", UploadItem),
      Entry(UsersId, "Delete", DeleteUser),
      Entry(Items, "head", ListItems),
      Entry(UsersId, "parameters", Op(<<>>, <<>>, FALSE, NoBody)),
      Entry(Items, "x-ext", Op(<<>>, <<>>, FALSE, NoBody)) }

\* A path item has one value per key.
DistinctKeys(paths) ==
    \A i, j \in 1..Len(paths) :
        (paths[i].path = paths[j].path /\ paths[i].key = paths[j].key) => i = j

PathLists ==
    UNION { { p \in [1..n -> Entries] : DistinctKeys(p) } : n \in 1..MaxOps }

ServerUrl == <<"https:", "/", "/", "api.example", "/", "v1", "/">>
OverrideUrl == <<"http:", "/", "/", "override", "/">>

Docs ==
    { [hasServers |-> sv # <<>>, servers |-> sv, paths |-> p] :
        sv \in {<<>>, <<ServerUrl>>}, p \in PathLists }

IntV(n) == [ty |-> "int", n |-> n, s |-> ""]
BoolV(b) == [ty |-> "bool", n |-> IF b THEN 1 ELSE 0, s |-> ""]
StrV(s) == [ty |-> "str", n |-> 0, s |-> s]
Arg(n, v) == [name |-> n, value |-> v]

ArgLists ==
    { <<>>,
      <<Arg("id", IntV(42)), Arg("verbose", BoolV(TRUE))>>,
      <<Arg("a", IntV(1)), Arg("b", IntV(2))>>,
      <<Arg("h", StrV("x")), Arg("c", StrV("y")), Arg("q", IntV(7))>> }

\* The names execute_tool is called with: the registered ones and a stranger.
ToolNames == DOMAIN tools \cup {"nope"}

InitTools ==
    /\ AgentInit({<<"mcp_server", ".py">>}, {Prose}, {Prose})
    /\ ToolInit({<<>>, OverrideUrl}, Docs)

NextTools ==
    \/ ExtractTools
    \/ \E name \in ToolNames, args \in ArgLists : ExecuteTool(name, args)
    \/ \E resp \in Responses : HttpResponds(resp)
    \/ CallerReturns

SpecTools == InitTools /\ [][NextTools]_vars

-----------------------------------------------------------------------------
(* Properties of the tool side                                             *)

\* C6: execute_tool always returns a result and never raises; for a name that
\* is not registered the result is the failure "Unknown tool: <name>" and no
\* request was made.
C6_ExecuteNeverRaises ==
    xpc = "returned"
    => /\ outcome.kind = "return"
       /\ invoked.name \notin DOMAIN tools
          => /\ ~request.sent
             /\ ~outcome.success
             /\ outcome.error = "Unknown tool: " \o invoked.name

\* C7: in every registered tool and every returned descriptor, each required
\* name is a property name.
C7_RequiredWithinProperties ==
    /\ \A n \in DOMAIN tools :
          Range(tools[n].input_schema.required) \subseteq Range(tools[n].input_schema.properties)
    /\ \A i \in 1..Len(toolList) :
          Range(toolList[i].inputSchema.required) \subseteq Range(toolList[i].inputSchema.properties)

\* The keys of the documents that spell GET, POST, PUT, PATCH or DELETE in some case.
SpellsEligible(key) == key \in {"get", "POST", "Put", "patch", "Delete"}

EligibleEntries(paths) == SelectSeq(paths, LAMBDA e : SpellsEligible(e.key))

\* C8: nothing is registered before extract_tools; after it every registry entry
\* carries one of the five methods and comes from an entry of the document under
\* such a key, and the returned list has one tool per such entry, in order: a
\* key of any other kind adds nothing.
C8_OnlyEligibleMethods ==
    /\ xpc = "new" => (tools = <<>> /\ toolList = <<>>)
    /\ xpc # "new"
       => /\ \A n \in DOMAIN tools :
                /\ tools[n].method \in {"GET", "POST", "PUT", "PATCH", "DELETE"}
                /\ \E i \in 1..Len(doc.paths) :
                      /\ SpellsEligible(doc.paths[i].key)
                      /\ doc.paths[i].path = tools[n].path
                      /\ doc.paths[i].op = tools[n].operation
                      /\ ToolName(doc.paths[i]) = n
          /\ Len(toolList) = Len(EligibleEntries(doc.paths))
          /\ \A i \in 1..Len(toolList) :
                toolList[i].name = ToolName(EligibleEntries(doc.paths)[i])
          /\ DOMAIN tools = {toolList[i].name : i \in 1..Len(toolList)}

\* A document with a head operation beside a get operation gave one tool.
C8_Witness ==
    /\ xpc = "ready"
    /\ Len(doc.paths) = 2
    /\ doc.paths[1].key = "head"
    /\ doc.paths[2].key = "get"
    /\ Len(toolList) = 1
    /\ Cardinality(DOMAIN tools) = 1

\* The arguments that no declared parameter names and that fill no {name}
\* placeholder of the path template.
LeftoverArguments(info, args) ==
    SelectSeq(args, LAMBDA a : /\ a.name \notin Range(Names(info.operation.params))
                               /\ ~Contains(info.path, <<"{", a.name, "}">>))

\* C9: the JSON body of every request is exactly the leftover arguments, and
\* there is no body when there are none.
C9_BodyIsLeftoverArguments ==
    request.sent => request.json = LeftoverArguments(tools[invoked.name], invoked.args)

\* The operation's request body is required and its JSON schema has properties
\* and no required list of its own.
RequiredBodyNoList(op) ==
    op.hasBody /\ op.body.required /\ op.body.hasJson /\ op.body.hasProps /\ ~op.body.hasReq

\* C10 as stated: whatever the declared parameters, every body property of such
\* an operation is required.
C10_AsStated ==
    \A n \in DOMAIN tools :
        RequiredBodyNoList(tools[n].operation)
        => Range(tools[n].operation.body.props) \subseteq Range(tools[n].input_schema.required)

\* C10: when, besides, no declared parameter is marked required, the required
\* list is the whole list of property names, so it holds every body property;
\* body properties a and b alone give required = [a, b].
C10_RequireEverythingFallback ==
    \A n \in DOMAIN tools :
        LET op == tools[n].operation
            schema == tools[n].input_schema
        IN /\ (RequiredBodyNoList(op) /\ \A i \in 1..Len(op.params) : ~op.params[i].required)
              => /\ schema.required = schema.properties
                 /\ Range(op.body.props) \subseteq Range(schema.required)
           /\ op = PostItem => schema.required = <<"a", "b">>

\* The operation with required body properties a and b was registered.
C10_Witness ==
    \E n \in DOMAIN tools :
        /\ tools[n].operation = PostItem
        /\ tools[n].input_schema.required = <<"a", "b">>

-----------------------------------------------------------------------------
(* Base URL resolution: documents that differ in their servers member.     *)

BackupUrl == <<"https:", "/", "/", "backup.example">>

\* The servers member: absent, an empty list, one server, two servers, and a
\* first server whose url is the empty string.
ServerLists ==
    { [has |-> FALSE, list |-> <<>>],
      [has |-> TRUE, list |-> <<>>],
      [has |-> TRUE, list |-> <<ServerUrl>>],
      [has |-> TRUE, list |-> <<BackupUrl, ServerUrl>>],
      [has |-> TRUE, list |-> <<<<>>, ServerUrl>>] }

BasePaths ==
    { <<Entry(UsersId, "get", GetUser)>>,
      <<Entry(Items, "POST", PostItem), Entry(UsersId, "Put", PutUser)>> }

BaseDocs ==
    { [hasServers |-> sv.has, servers |-> sv.list, paths |-> p] :
        sv \in ServerLists, p \in BasePaths }

InitBaseUrl ==
    /\ AgentInit({<<"mcp_server", ".py">>}, {Prose}, {Prose})
    /\ ToolInit({<<>>, OverrideUrl, ServerUrl}, BaseDocs)

SpecBaseUrl == InitBaseUrl /\ [][NextTools]_vars

\* The request of the running execute_tool goes to base URL b: b without its
\* trailing slashes, then the tool's path, then the path substitution.
UsesBase(b) ==
    request.url = SubstitutePath(RStripSlash(b) \o tools[invoked.name].path, invoked.args)

\* C11: every request execute_tool makes goes to the override when one is set
\* (a non-empty string); with no override, to the url of the first server when
\* the document has a non-empty servers list; and to http://localhost:8000 only
\* when there is neither.
C11_BaseUrlOrder ==
    request.sent
    => /\ base_url # <<>> => UsesBase(base_url)
       /\ (base_url = <<>> /\ doc.hasServers /\ Len(doc.servers) > 0)
          => UsesBase(doc.servers[1])
       /\ (base_url = <<>> /\ ~(doc.hasServers /\ Len(doc.servers) > 0))
          => UsesBase(DefaultBase)

\* A request went to the override although the document lists other servers.
C11_Witness ==
    /\ request.sent
    /\ base_url = OverrideUrl
    /\ doc.hasServers
    /\ doc.servers = <<BackupUrl, ServerUrl>>
    /\ MatchAt(request.url, <<"http:", "/", "/", "override", "/", "users">>, 1)

=============================================================================
